---- MODULE Spec2Model ----
(***************************************************************************)
(* Build-then-query pipeline of app.py: load_faq -> extract (per chunk) -> *)
(* dedupe -> store, then the question loop: search_graph -> ask.           *)
(*                                                                         *)
(* Strings whose content the code inspects (entity names, keywords) are    *)
(* sequences of characters.  A completion text of the language model is a  *)
(* sequence of tokens: a code fence, the word json, prose, or the text of  *)
(* one JSON value.  The graph store is a list of nodes and a list of edges *)
(* between node positions, so that duplicate nodes and duplicate edges are *)
(* representable.                                                          *)
(***************************************************************************)
EXTENDS Integers, Sequences, FiniteSets, TLC

\* ------------------------------------------------------------------ bounds
\* Paragraph slots of the document read by load_faq.
MaxParas == 2
\* Longest keyword array the keyword-extraction completion carries.
MaxKeywords == 2

\* ----------------------------------------------------------------- strings
\* str.lower() / Cypher toLower on one character.
LowerChar(c) ==
  CASE c = "A" -> "a"
    [] c = "B" -> "b"
    [] OTHER -> c

\* toLower on a string.
ToLower(s) == [k \in 1..Len(s) |-> LowerChar(s[k])]

\* Cypher CONTAINS: needle occurs in hay as a contiguous substring.
Contains(hay, needle) ==
  \E k \in 0..(Len(hay) - Len(needle)) : SubSeq(hay, k + 1, k + Len(needle)) = needle

\* Python truthiness of a str-or-None value: None and "" are falsy.
\* A possibly-null string is [null |-> BOOLEAN, s |-> string].
Truthy(v) == ~v.null /\ v.s # <<>>

Null == [null |-> TRUE, s |-> <<>>]
Str(s) == [null |-> FALSE, s |-> s]

\* ----------------------------------------------------------- input universes
EmptyName == <<>>
Names == {EmptyName, <<"a">>, <<"A">>, <<"A", "b">>}

Ent(n, t) == [name |-> n, type |-> t]
Rel(s, r, t) == [source |-> s, relation |-> r, target |-> t]

\* Entity lists one extraction may return.
EntLists ==
  { <<>>,
    <<Ent(<<"a">>, "T1")>>,
    <<Ent(<<"a">>, "T2"), Ent(<<"A">>, "T1")>>,
    <<Ent(<<"A", "b">>, "T1"), Ent(<<"A", "b">>, "T2")>>,
    <<Ent(EmptyName, "T1"), Ent(<<"a">>, "T1")>> }

\* Relation lists one extraction may return.
RelLists ==
  { <<>>,
    <<Rel(<<"a">>, "R1", <<"A">>), Rel(<<"a">>, "R2", <<"A">>)>>,
    <<Rel(<<"A">>, "R1", <<"a">>), Rel(<<"A", "b">>, "R1", <<"a">>)>>,
    <<Rel(<<"a">>, "R1", EmptyName), Rel(<<"a">>, "R1", <<"a">>)>>,
    <<Rel(<<"a">>, "R1", <<"A">>), Rel(<<"A">>, "R1", <<"A", "b">>)>> }

\* Keywords the keyword-extraction completion may carry.
Keywords == {<<>>, <<"a">>, <<"B">>, <<"b", "a">>}

RECURSIVE SeqsUpTo(_, _)
SeqsUpTo(S, n) ==
  IF n = 0 THEN {<<>>}
  ELSE LET shorter == SeqsUpTo(S, n - 1)
       IN shorter \cup {Append(q, x) : q \in {p \in shorter : Len(p) = n - 1}, x \in S}

KeywordLists == SeqsUpTo(Keywords, MaxKeywords)

\* ------------------------------------------------------------- JSON values
\* A JSON value: an object (with or without each of the keys entities and
\* relations), an array (of keyword strings), or a number.
JObject(hasE, es, hasR, rs) ==
  [shape |-> "object", hasE |-> hasE, entities |-> es,
   hasR |-> hasR, relations |-> rs, items |-> <<>>]
JArray(items) ==
  [shape |-> "array", hasE |-> FALSE, entities |-> <<>>,
   hasR |-> FALSE, relations |-> <<>>, items |-> items]
JNumber ==
  [shape |-> "number", hasE |-> FALSE, entities |-> <<>>,
   hasR |-> FALSE, relations |-> <<>>, items |-> <<>>]

\* The literal of app.py:45.
EmptyResult == JObject(TRUE, <<>>, TRUE, <<>>)

\* The shape the extraction prompt asks for.
WellShaped(v) == v.shape = "object" /\ v.hasE /\ v.hasR

\* ------------------------------------------------------- completion texts
Fence == [kind |-> "fence", val |-> JNumber]
JsonWord == [kind |-> "jsonword", val |-> JNumber]
Prose == [kind |-> "prose", val |-> JNumber]
Value(v) == [kind |-> "value", val |-> v]

\* str.split("```"): the pieces between the fences.
RECURSIVE SplitFence(_, _, _)
SplitFence(toks, cur, acc) ==
  IF toks = <<>> THEN Append(acc, cur)
  ELSE IF Head(toks).kind = "fence"
       THEN SplitFence(Tail(toks), <<>>, Append(acc, cur))
       ELSE SplitFence(Tail(toks), Append(cur, Head(toks)), acc)

\* str.removeprefix("json").
RemovePrefixJson(toks) ==
  IF toks # <<>> /\ Head(toks).kind = "jsonword" THEN Tail(toks) ELSE toks

HasFence(text) == \E k \in 1..Len(text) : text[k].kind = "fence"

\* app.py:40-41 and 73-74: keep what follows the first fence.
StripFence(text) ==
  IF HasFence(text) THEN RemovePrefixJson(SplitFence(text, <<>>, <<>>)[2]) ELSE text

\* json.loads: succeeds exactly on the text of one JSON value.
Parses(toks) == Len(toks) = 1 /\ toks[1].kind = "value"
Parsed(toks) == toks[1].val

\* Ways a completion wraps its payload: bare, in a ```json fence, in a plain
\* fence between prose, and followed by a stray fence.
FencedJson(payload) == <<Fence, JsonWord>> \o payload \o <<Fence>>
FencedInProse(payload) == <<Prose, Fence>> \o payload \o <<Fence, Prose>>
StrayFence(payload) == payload \o <<Fence>>
Wrappings(payload) ==
  {payload, FencedJson(payload), FencedInProse(payload), StrayFence(payload)}

\* Completions at the extraction call site.
ExtractionPayloads ==
  { <<Value(JObject(TRUE, es, TRUE, <<>>))>> : es \in EntLists }
  \cup { <<Value(JObject(TRUE, <<Ent(<<"a">>, "T2"), Ent(<<"A">>, "T1")>>, TRUE, rs))>> :
           rs \in RelLists }
  \cup { <<Value(JObject(TRUE, <<Ent(<<"A", "b">>, "T2")>>, TRUE,
                         <<Rel(<<"A">>, "R1", <<"a">>), Rel(<<"A", "b">>, "R1", <<"a">>)>>))>>,
         <<Value(JArray(<<>>))>>, <<Value(JNumber)>>,
         <<Value(JObject(FALSE, <<>>, TRUE, <<>>))>>,
         <<Value(JObject(TRUE, <<Ent(<<"a">>, "T1")>>, FALSE, <<>>))>>,
         <<Prose>> }
ExtractionTexts == UNION {Wrappings(p) : p \in ExtractionPayloads}

\* ---------------------------------------------------------------- extract
\* app.py:38-45: the value extract returns for a completion text.
extract(text) ==
  LET body == StripFence(text)
  IN IF Parses(body) THEN Parsed(body) ELSE EmptyResult

\* ------------------------------------------------------------------ load_faq
\* Pieces text.split("\n\n") can yield: empty, blank, text with padding.
Pieces == {"", " ", " Q "}

\* str.strip() on a piece or on a console line.
Strip(p) ==
  CASE p = " " -> ""
    [] p = " Q " -> "Q"
    [] p = " Exit " -> "Exit"
    [] OTHER -> p

\* A split never yields an empty list.
Documents == SeqsUpTo(Pieces, MaxParas) \ {<<>>}

RECURSIVE StripAll(_)
StripAll(ps) ==
  IF ps = <<>> THEN <<>> ELSE <<Strip(Head(ps))>> \o StripAll(Tail(ps))

\* app.py:17: the stripped pieces that are not empty.
load_faq(pieces) == StripAll(SelectSeq(pieces, LAMBDA p : Strip(p) # ""))

\* ---------------------------------------------------------------- dedupe
\* app.py:126-128 with the record of a repeated name overwritten.
AddEntityLastWins(acc, e) ==
  IF e.name \notin acc.seen
  THEN [list |-> Append(acc.list, e), seen |-> acc.seen \cup {e.name}]
  ELSE [list |-> [k \in 1..Len(acc.list) |->
                    IF acc.list[k].name = e.name THEN e ELSE acc.list[k]],
        seen |-> acc.seen]

\* app.py:126-128: one entity against seen_e / all_entities.
AddEntity(acc, e) ==
  IF e.name \notin acc.seen
  THEN [list |-> Append(acc.list, e), seen |-> acc.seen \cup {e.name}]
  ELSE acc

\* app.py:125: the loop over data["entities"].
RECURSIVE DedupeEntities(_, _)
DedupeEntities(acc, es) ==
  IF es = <<>> THEN acc ELSE DedupeEntities(AddEntity(acc, Head(es)), Tail(es))

\* app.py:130 keyed without the relation component.
RelationKeyEndpoints(r) == <<r.source, "", r.target>>

\* app.py:130: key = (source, relation, target).
RelationKey(r) == <<r.source, r.relation, r.target>>

\* app.py:131-133: one relation against seen_r / all_relations.
AddRelation(acc, r) ==
  IF RelationKey(r) \notin acc.seen
  THEN [list |-> Append(acc.list, r), seen |-> acc.seen \cup {RelationKey(r)}]
  ELSE acc

\* app.py:129: the loop over data["relations"].
RECURSIVE DedupeRelations(_, _)
DedupeRelations(acc, rs) ==
  IF rs = <<>> THEN acc ELSE DedupeRelations(AddRelation(acc, Head(rs)), Tail(rs))

\* ------------------------------------------------------------- graph store
\* A graph: nodes <<[name, type], ...>>, edges <<[src, rel, tgt], ...>> with
\* src and tgt positions in nodes.
Node(n, t) == [name |-> n, type |-> t]
Edge(a, r, b) == [src |-> a, rel |-> r, tgt |-> b]
EmptyGraph == [nodes |-> <<>>, edges |-> <<>>]

\* Store contents a build may find: nothing, the graph of an earlier build,
\* and contents written by another client with a repeated node and edge.
PriorGraphs ==
  { EmptyGraph,
    [nodes |-> <<Node(<<"A", "b">>, "T2"), Node(<<"a">>, "T1")>>,
     edges |-> <<Edge(1, "R2", 2)>>],
    [nodes |-> <<Node(<<"a">>, "T1"), Node(<<"a">>, "T1"), Node(<<"B">>, "T1")>>,
     edges |-> <<Edge(1, "R1", 3), Edge(1, "R1", 3)>>] }

\* app.py:52 left out: the prior contents stay.
KeepAll(g) == g

\* app.py:52: MATCH (n) DETACH DELETE n.
DetachDeleteAll(g) == EmptyGraph

\* Positions of the nodes named name, ascending.
NodesNamed(nodes, name) ==
  SelectSeq([k \in 1..Len(nodes) |-> k], LAMBDA k : nodes[k].name = name)

\* app.py:54: MERGE (n:Entity {name}) SET n.type.
MergeEntity(g, e) ==
  IF NodesNamed(g.nodes, e.name) = <<>>
  THEN [g EXCEPT !.nodes = Append(@, Node(e.name, e.type))]
  ELSE [g EXCEPT !.nodes = [k \in 1..Len(g.nodes) |->
                              IF g.nodes[k].name = e.name
                              THEN Node(e.name, e.type) ELSE g.nodes[k]]]

\* app.py:53: the loop over entities.
RECURSIVE MergeEntities(_, _)
MergeEntities(g, es) ==
  IF es = <<>> THEN g ELSE MergeEntities(MergeEntity(g, Head(es)), Tail(es))

\* The rows of MATCH (a:Entity {name: $src}), (b:Entity {name: $tgt}).
EndpointRows(nodes, src, tgt) ==
  LET as == NodesNamed(nodes, src)
      bs == NodesNamed(nodes, tgt)
  IN [k \in 1..(Len(as) * Len(bs)) |->
        <<as[((k - 1) \div Len(bs)) + 1], bs[((k - 1) % Len(bs)) + 1]>>]

\* MERGE of the whole pattern: a missing endpoint is created with the edge.
MergeRelationCreating(g, r) ==
  LET g1 == IF NodesNamed(g.nodes, r.source) = <<>>
            THEN [g EXCEPT !.nodes = Append(@, Node(r.source, "T1"))] ELSE g
      g2 == IF NodesNamed(g1.nodes, r.target) = <<>>
            THEN [g1 EXCEPT !.nodes = Append(@, Node(r.target, "T1"))] ELSE g1
      rows == EndpointRows(g2.nodes, r.source, r.target)
      fresh == SelectSeq(rows, LAMBDA p :
                 \A k \in 1..Len(g2.edges) : g2.edges[k] # Edge(p[1], r.relation, p[2]))
  IN [g2 EXCEPT !.edges = @ \o [k \in 1..Len(fresh) |->
                                  Edge(fresh[k][1], r.relation, fresh[k][2])]]

\* app.py:56-59: MATCH both endpoints, MERGE the edge between each row.
MergeRelation(g, r) ==
  LET rows == EndpointRows(g.nodes, r.source, r.target)
      fresh == SelectSeq(rows, LAMBDA p :
                 \A k \in 1..Len(g.edges) : g.edges[k] # Edge(p[1], r.relation, p[2]))
  IN [g EXCEPT !.edges = @ \o [k \in 1..Len(fresh) |->
                                 Edge(fresh[k][1], r.relation, fresh[k][2])]]

\* app.py:55: the loop over relations.
RECURSIVE MergeRelations(_, _)
MergeRelations(g, rs) ==
  IF rs = <<>> THEN g ELSE MergeRelations(MergeRelation(g, Head(rs)), Tail(rs))

\* app.py:50-60: clear, write the entities, write the relations.
store(g, entities, relations) ==
  MergeRelations(MergeEntities(DetachDeleteAll(g), entities), relations)

\* ------------------------------------------------------------ search_graph
\* One entry of collect(DISTINCT {rel: .., target|source: ..}); both fields
\* are null when the OPTIONAL MATCH found no edge.
Entry(r, n) == [rel |-> r, nbr |-> Str(n)]
NullEntry == [rel |-> "null", nbr |-> Null]

\* app.py:82 compared without toLower.
MatchesCaseSensitive(name, kw) == Contains(name, kw)

\* app.py:82: toLower(n.name) CONTAINS toLower($kw).
Matches(name, kw) == Contains(ToLower(name), ToLower(kw))

\* app.py:83: OPTIONAL MATCH (n)-[r:RELATES]->(m), one entry per edge.
OutEntries(g, n) ==
  LET es == SelectSeq(g.edges, LAMBDA e : e.src = n)
  IN IF es = <<>> THEN <<NullEntry>>
     ELSE [k \in 1..Len(es) |-> Entry(es[k].rel, g.nodes[es[k].tgt].name)]

\* app.py:84: OPTIONAL MATCH (p)-[r2:RELATES]->(n), one entry per edge.
IncEntries(g, n) ==
  LET es == SelectSeq(g.edges, LAMBDA e : e.tgt = n)
  IN IF es = <<>> THEN <<NullEntry>>
     ELSE [k \in 1..Len(es) |-> Entry(es[k].rel, g.nodes[es[k].src].name)]

\* The rows of one matched node: every out entry against every inc entry.
NodeRows(g, n) ==
  LET os == OutEntries(g, n)
      is == IncEntries(g, n)
  IN [k \in 1..(Len(os) * Len(is)) |->
        [entity |-> g.nodes[n].name, type |-> g.nodes[n].type,
         o |-> os[((k - 1) \div Len(is)) + 1], i |-> is[((k - 1) % Len(is)) + 1]]]

RECURSIVE Flatten(_)
Flatten(ss) == IF ss = <<>> THEN <<>> ELSE Head(ss) \o Flatten(Tail(ss))

\* app.py:82-84: the rows before aggregation.
QueryRows(g, kw) ==
  LET hit == SelectSeq([k \in 1..Len(g.nodes) |-> k],
                       LAMBDA n : Matches(g.nodes[n].name, kw))
  IN Flatten([k \in 1..Len(hit) |-> NodeRows(g, hit[k])])

\* DISTINCT: the first occurrence of each value, in order.
RECURSIVE Distinct(_)
Distinct(xs) ==
  IF xs = <<>> THEN <<>>
  ELSE LET front == Distinct(SubSeq(xs, 1, Len(xs) - 1))
           last == xs[Len(xs)]
       IN IF \E k \in 1..Len(front) : front[k] = last THEN front ELSE Append(front, last)

\* app.py:81-88: one record per (n.name, n.type), the entries collected DISTINCT.
FindNeighborhood(g, kw) ==
  LET rows == QueryRows(g, kw)
      keys == Distinct([k \in 1..Len(rows) |-> <<rows[k].entity, rows[k].type>>])
      group(key) == SelectSeq(rows, LAMBDA r : <<r.entity, r.type>> = key)
  IN [k \in 1..Len(keys) |->
        LET grp == group(keys[k])
        IN [entity |-> keys[k][1], type |-> keys[k][2],
            out |-> Distinct([j \in 1..Len(grp) |-> grp[j].o]),
            inc |-> Distinct([j \in 1..Len(grp) |-> grp[j].i])]]

\* One line of the rendered context.
Line(kind, a, r, b) == [kind |-> kind, a |-> a, rel |-> r, b |-> b]
Header(d) == Line("header", d.entity, d.type, <<>>)
OutLine(d, o) == Line("out", d.entity, o.rel, o.nbr.s)
IncLine(d, i) == Line("inc", i.nbr.s, i.rel, d.entity)
BlankLine == Line("blank", <<>>, "", <<>>)
NoInfoFound == <<Line("No info found.", <<>>, "", <<>>)>>

\* app.py:91-95: the block of one record.
Render(d) ==
  LET os == SelectSeq(d.out, LAMBDA o : Truthy(o.nbr))
      is == SelectSeq(d.inc, LAMBDA i : Truthy(i.nbr))
  IN <<Header(d)>> \o [k \in 1..Len(os) |-> OutLine(d, os[k])]
                   \o [k \in 1..Len(is) |-> IncLine(d, is[k])]

\* app.py:80-96: the blocks of every keyword, in order.
RECURSIVE Results(_, _)
Results(g, kws) ==
  IF kws = <<>> THEN <<>>
  ELSE LET recs == FindNeighborhood(g, Head(kws))
       IN [k \in 1..Len(recs) |-> Render(recs[k])] \o Results(g, Tail(kws))

\* "\n\n".join(results).
RECURSIVE Join(_)
Join(blocks) ==
  IF blocks = <<>> THEN <<>>
  ELSE IF Len(blocks) = 1 THEN blocks[1]
       ELSE blocks[1] \o <<BlankLine>> \o Join(Tail(blocks))

\* app.py:97 returning the empty join.
ContextNoSentinel(results) == Join(results)

\* app.py:97.
Context(results) == IF results # <<>> THEN Join(results) ELSE NoInfoFound

\* Completions at the keyword call site.
KeywordPayloads == { <<Value(JArray(kws))>> : kws \in KeywordLists }
KeywordTexts ==
  KeywordPayloads
  \cup { FencedJson(p) : p \in KeywordPayloads }
  \cup UNION { Wrappings(p) : p \in { <<Value(JArray(<<<<"a">>>>))>>, <<Value(JNumber)>>,
                                        <<Prose>>, <<>> } }

\* ------------------------------------------------------------- console loop
\* Lines input() may return.
Inputs == {"quit", " Exit ", " Q ", "", " ", "cats?"}

\* str.lower() on a console line.
Lower(x) ==
  CASE x = "Q" -> "q"
    [] x = "Exit" -> "exit"
    [] OTHER -> x

\* app.py:142.
QuitWords == {"quit", "exit", "q"}

\* ------------------------------------------------------------------- state
VARIABLES
  pc,             \* "init", "build", "await", "answered", "terminated", "crashed"
  graph,          \* contents of the Neo4j store
  chunks,         \* app.py:117
  i,              \* chunks consumed by the loop of app.py:122
  all_entities,   \* app.py:119
  all_relations,  \* app.py:119
  seen_e,         \* app.py:120
  seen_r,         \* app.py:120
  q,              \* app.py:141
  storeWrites,    \* calls of store in this run
  extracted,      \* what extract returned, chunk by chunk, in this build
  lastText,       \* completion text of the latest language-model call
  keywords,       \* app.py:75
  lookups,        \* store queries run for the current question
  context,        \* app.py:100
  answered        \* the answerer call of app.py:101 was made for the current question

vars == <<pc, graph, chunks, i, all_entities, all_relations, seen_e, seen_r, q,
          storeWrites, extracted, lastText, keywords, lookups, context, answered>>

buildVars == <<chunks, i, all_entities, all_relations, seen_e, seen_r, extracted>>
askVars == <<keywords, lookups, context, answered>>

NoText == <<>>

Init ==
  /\ pc = "init"
  /\ graph \in PriorGraphs
  /\ chunks = <<>>
  /\ i = 0
  /\ all_entities = <<>>
  /\ all_relations = <<>>
  /\ seen_e = {}
  /\ seen_r = {}
  /\ q = ""
  /\ storeWrites = 0
  /\ extracted = <<>>
  /\ lastText = NoText
  /\ keywords = <<>>
  /\ lookups = 0
  /\ context = <<>>
  /\ answered = FALSE

\* app.py:117.
LoadFaq ==
  /\ pc = "init"
  /\ \E doc \in Documents : chunks' = load_faq(doc)
  /\ pc' = "build"
  /\ UNCHANGED <<graph, i, all_entities, all_relations, seen_e, seen_r, q,
                 storeWrites, extracted, lastText, keywords, lookups, context, answered>>

\* app.py:122 with the loop left one chunk early.
LoopDoneOneEarly(k, n) == k + 1 >= n

\* app.py:122: the for loop has consumed every chunk.
LoopDone(k, n) == k >= n

\* app.py:122-133: one chunk extracted and folded into the aggregate.
\* data["entities"] raises on a value that is no object or lacks the key,
\* data["relations"] on an object that lacks that key.
ExtractChunk ==
  /\ pc = "build"
  /\ ~LoopDone(i, Len(chunks))
  /\ \E text \in ExtractionTexts :
       LET data == extract(text)
           ents == DedupeEntities([list |-> all_entities, seen |-> seen_e], data.entities)
           rels == DedupeRelations([list |-> all_relations, seen |-> seen_r], data.relations)
       IN /\ lastText' = text
          /\ extracted' = Append(extracted, data)
          /\ IF data.shape = "object" /\ data.hasE
             THEN /\ all_entities' = ents.list
                  /\ seen_e' = ents.seen
             ELSE UNCHANGED <<all_entities, seen_e>>
          /\ IF WellShaped(data)
             THEN /\ all_relations' = rels.list
                  /\ seen_r' = rels.seen
                  /\ i' = i + 1
                  /\ pc' = "build"
             ELSE /\ UNCHANGED <<all_relations, seen_r, i>>
                  /\ pc' = "crashed"
  /\ UNCHANGED <<graph, chunks, q, storeWrites, keywords, lookups, context, answered>>

\* app.py:135: store(all_entities, all_relations), then the loop prompt.
StoreGraph ==
  /\ pc = "build"
  /\ LoopDone(i, Len(chunks))
  /\ graph' = store(graph, all_entities, all_relations)
  /\ storeWrites' = storeWrites + 1
  /\ pc' = "await"
  /\ lastText' = NoText
  /\ extracted' = <<>>
  /\ UNCHANGED <<chunks, i, all_entities, all_relations, seen_e, seen_r, q,
                 keywords, lookups, context, answered>>

\* app.py:141-142: a quit word ends the loop.
ReadQuit ==
  /\ pc = "await"
  /\ \E line \in Inputs :
       /\ Lower(Strip(line)) \in QuitWords
       /\ q' = Strip(line)
  /\ pc' = "terminated"
  /\ UNCHANGED <<graph, storeWrites, lastText>>
  /\ UNCHANGED buildVars
  /\ UNCHANGED askVars

\* app.py:143: an empty line asks nothing.
ReadBlank ==
  /\ pc = "await"
  /\ \E line \in Inputs :
       /\ Strip(line) = ""
       /\ q' = Strip(line)
  /\ UNCHANGED <<pc, graph, storeWrites, lastText>>
  /\ UNCHANGED buildVars
  /\ UNCHANGED askVars

\* json.loads failure caught as in extract: an empty keyword list.
KeywordsParsedOrEmpty(body) == TRUE

\* app.py:75: json.loads(text) returns only for the text of a JSON value.
KeywordsParsed(body) == Parses(body)

\* app.py:144, 99-109, 65-97: one question asked.  A keyword completion that
\* does not parse raises out of search_graph and ask; so does iterating a
\* parsed number.
AskQuestion ==
  /\ pc = "await"
  /\ \E line \in Inputs, text \in KeywordTexts :
       LET body == StripFence(text)
       IN /\ Lower(Strip(line)) \notin QuitWords
          /\ Strip(line) # ""
          /\ q' = Strip(line)
          /\ lastText' = text
          /\ IF KeywordsParsed(body) /\ (Parses(body) => Parsed(body).shape = "array")
             THEN LET kws == IF Parses(body) THEN Parsed(body).items ELSE <<>>
                  IN /\ keywords' = kws
                     /\ lookups' = Len(kws)
                     /\ context' = Context(Results(graph, kws))
                     /\ answered' = TRUE
                     /\ pc' = "answered"
             ELSE /\ keywords' = <<>>
                  /\ lookups' = 0
                  /\ context' = <<>>
                  /\ answered' = FALSE
                  /\ pc' = "crashed"
  /\ UNCHANGED <<graph, storeWrites>>
  /\ UNCHANGED buildVars

\* app.py:144: the answer printed; the locals of ask are gone.
PrintAnswer ==
  /\ pc = "answered"
  /\ pc' = "await"
  /\ lastText' = NoText
  /\ keywords' = <<>>
  /\ lookups' = 0
  /\ context' = <<>>
  /\ answered' = FALSE
  /\ UNCHANGED <<graph, q, storeWrites>>
  /\ UNCHANGED buildVars

Next ==
  \/ LoadFaq
  \/ ExtractChunk
  \/ StoreGraph
  \/ ReadQuit
  \/ ReadBlank
  \/ AskQuestion
  \/ PrintAnswer

Spec == Init /\ [][Next]_vars

\* =================================================================== claims
Range(f) == {f[k] : k \in DOMAIN f}
\* The build has stored its graph and the loop waits for a line.
Stored == pc = "await"

\* The edges of a graph as (source name, relation, target name).
EdgeTriple(g, e) == <<g.nodes[e.src].name, e.rel, g.nodes[e.tgt].name>>
EdgeTriples(g) == {EdgeTriple(g, g.edges[k]) : k \in 1..Len(g.edges)}
NodeNames(g) == {g.nodes[k].name : k \in 1..Len(g.nodes)}

\* Every entity record extract has returned in this build, in order.
InputEntities == Flatten([k \in 1..Len(extracted) |-> extracted[k].entities])
InputRelations == Flatten([k \in 1..Len(extracted) |-> extracted[k].relations])

\* g is the graph of E and R alone: one node per name of E and nothing else,
\* typed by the last record of the name, one edge per triple of R whose
\* endpoints are names of E and nothing else.
GraphOf(g, E, R) ==
  /\ NodeNames(g) = {E[k].name : k \in 1..Len(E)}
  /\ \A j, k \in 1..Len(g.nodes) : g.nodes[j].name = g.nodes[k].name => j = k
  /\ \A k \in 1..Len(g.nodes) :
       \E j \in 1..Len(E) :
         /\ E[j] = Ent(g.nodes[k].name, g.nodes[k].type)
         /\ \A l \in (j + 1)..Len(E) : E[l].name # E[j].name
  /\ EdgeTriples(g) =
       { <<r.source, r.relation, r.target>> : r \in { x \in Range(R) :
           x.source \in NodeNames(g) /\ x.target \in NodeNames(g) } }
  /\ \A j, k \in 1..Len(g.edges) :
       EdgeTriple(g, g.edges[j]) = EdgeTriple(g, g.edges[k]) => j = k

\* C1: the graph left by store(E, R) depends only on E and R, whatever the
\* store held before: no node per name twice, no edge per triple twice, nothing
\* of the prior contents; a second store of the same E and R leaves the same
\* graph.  Checked of the graph the build leaves and of store applied to the
\* extraction results before deduplication.
C1_FullReplacement ==
  /\ Stored =>
       /\ GraphOf(graph, all_entities, all_relations)
       /\ \A g0 \in PriorGraphs : store(g0, all_entities, all_relations) = graph
       /\ store(graph, all_entities, all_relations) = graph
  /\ \A g0 \in IF pc = "build" THEN PriorGraphs ELSE {} :
       LET g1 == store(g0, InputEntities, InputRelations)
       IN /\ GraphOf(g1, InputEntities, InputRelations)
          /\ store(g1, InputEntities, InputRelations) = g1

\* A build over a store that held other data left a graph with several nodes
\* and edges.
C1_Witness ==
  /\ pc = "await"
  /\ Len(graph.nodes) >= 3
  /\ Len(graph.edges) >= 3
  /\ \E g0 \in PriorGraphs :
       /\ g0.nodes # <<>>
       /\ NodeNames(g0) \ NodeNames(graph) # {}
       /\ store(g0, all_entities, all_relations) = graph

\* Position of the first element of xs whose key is key.
FirstAt(xs, Key(_), key) ==
  CHOOSE k \in 1..Len(xs) : Key(xs[k]) = key /\ \A j \in 1..(k - 1) : Key(xs[j]) # key

EntityName(e) == e.name

\* C2: the aggregated entity list holds each extracted name exactly once, with
\* the record of the name's first occurrence, in order of first appearance.
C2_EntityFirstWins ==
  storeWrites = 0 =>
    /\ {all_entities[k].name : k \in 1..Len(all_entities)}
         = {InputEntities[k].name : k \in 1..Len(InputEntities)}
    /\ \A j, k \in 1..Len(all_entities) :
         all_entities[j].name = all_entities[k].name => j = k
    /\ \A k \in 1..Len(all_entities) :
         all_entities[k] = InputEntities[FirstAt(InputEntities, EntityName, all_entities[k].name)]
    /\ \A j, k \in 1..Len(all_entities) :
         j < k => FirstAt(InputEntities, EntityName, all_entities[j].name)
                    < FirstAt(InputEntities, EntityName, all_entities[k].name)
    /\ seen_e = {all_entities[k].name : k \in 1..Len(all_entities)}

\* Every chunk is extracted, a name came back twice with different types, and
\* another name came first in a later chunk.
C2_Witness ==
  /\ pc = "build"
  /\ i = Len(chunks)
  /\ i >= 2
  /\ \E j, k \in 1..Len(InputEntities) :
       /\ j < k
       /\ InputEntities[j].name = InputEntities[k].name
       /\ InputEntities[j].type # InputEntities[k].type
  /\ Len(all_entities) >= 2

\* C3: every extracted triple appears exactly once in the aggregated relation
\* list, at the position of its first occurrence; triples that differ in one
\* component are distinct.
C3_RelationDedupe ==
  storeWrites = 0 =>
    /\ {<<r.source, r.relation, r.target>> : r \in Range(all_relations)}
         = {<<r.source, r.relation, r.target>> : r \in Range(InputRelations)}
    /\ \A j, k \in 1..Len(all_relations) :
         all_relations[j] = all_relations[k] => j = k
    /\ \A j, k \in 1..Len(all_relations) :
         j < k => FirstAt(InputRelations, RelationKey, RelationKey(all_relations[j]))
                    < FirstAt(InputRelations, RelationKey, RelationKey(all_relations[k]))
    /\ Cardinality(Range(InputRelations)) = Len(all_relations)

\* A triple came back in two chunks, and two kept triples differ only in the
\* relation.
C3_Witness ==
  /\ pc = "build"
  /\ i = Len(chunks)
  /\ \E j, k \in 1..Len(InputRelations) : j < k /\ InputRelations[j] = InputRelations[k]
  /\ \E j, k \in 1..Len(all_relations) :
       /\ all_relations[j].source = all_relations[k].source
       /\ all_relations[j].target = all_relations[k].target
       /\ all_relations[j].relation # all_relations[k].relation

\* ------------------------------------------------------------- C4, C6, C7
EntityNames == {all_entities[k].name : k \in 1..Len(all_entities)}
Dangling(r) == r.source \notin EntityNames \/ r.target \notin EntityNames

\* Keywords a lookup is tried with.
ProbeKeywords == Keywords \cup Names

\* C4: a relation whose source or target names no entity of E leaves no node
\* and no edge, every entity and every other relation is written, and no
\* lookup, for any keyword, returns or renders the dangling relation.
C4_DanglingDropped ==
  Stored =>
    /\ NodeNames(graph) = EntityNames
    /\ \A r \in Range(all_relations) :
         IF Dangling(r)
         THEN /\ <<r.source, r.relation, r.target>> \notin EdgeTriples(graph)
              /\ \A kw \in ProbeKeywords :
                   LET recs == FindNeighborhood(graph, kw)
                   IN /\ \A k \in 1..Len(recs) :
                           /\ ~(recs[k].entity = r.source
                                /\ Entry(r.relation, r.target) \in Range(recs[k].out))
                           /\ ~(recs[k].entity = r.target
                                /\ Entry(r.relation, r.source) \in Range(recs[k].inc))
                      /\ \A ln \in Range(Context(Results(graph, <<kw>>))) :
                           ~(/\ ln.kind \in {"out", "inc"}
                             /\ <<ln.a, ln.rel, ln.b>> = <<r.source, r.relation, r.target>>)
         ELSE <<r.source, r.relation, r.target>> \in EdgeTriples(graph)

\* The store step returned with one relation dropped and another written.
C4_Witness ==
  /\ pc = "await"
  /\ \E r \in Range(all_relations) : Dangling(r) /\ r.source \in EntityNames
  /\ \E r \in Range(all_relations) : Dangling(r) /\ r.target \in EntityNames
  /\ \E r \in Range(all_relations) : ~Dangling(r)

\* kw occurs in name when case is ignored, character by character.
OccursIgnoringCase(name, kw) ==
  \E off \in 0..(Len(name) - Len(kw)) :
    \A j \in 1..Len(kw) : LowerChar(name[off + j]) = LowerChar(kw[j])

\* C6: every stored entity is returned, with its name and type, by the lookup
\* of every keyword its name contains case-insensitively, and by no other
\* lookup.
C6_RoundTrip ==
  /\ pc = "answered" =>
       \A e \in Range(all_entities) :
         (\E k \in 1..Len(keywords) : OccursIgnoringCase(e.name, keywords[k]))
           <=> Line("header", e.name, e.type, <<>>) \in Range(context)
  /\ Stored =>
      \A e \in Range(all_entities), kw \in ProbeKeywords :
         LET recs == FindNeighborhood(graph, kw)
             hits == {k \in 1..Len(recs) : recs[k].entity = e.name}
         IN IF OccursIgnoringCase(e.name, kw)
            THEN /\ Cardinality(hits) = 1
                 /\ \A k \in hits : recs[k].type = e.type
                 /\ Line("header", e.name, e.type, <<>>)
                      \in Range(Context(Results(graph, <<kw>>)))
            ELSE hits = {}

\* A question whose keyword matches a stored name only when case is ignored
\* was answered from a context naming that entity.
C6_Witness ==
  /\ pc = "answered"
  /\ <<"B">> \in Range(keywords)
  /\ \E e \in Range(all_entities) :
       /\ e.name = <<"A", "b">>
       /\ Line("header", e.name, e.type, <<>>) \in Range(context)

\* The (keyword position, node position) pairs that match.
MatchPairs ==
  {<<k, n>> \in (1..Len(keywords)) \X (1..Len(graph.nodes)) :
     OccursIgnoringCase(graph.nodes[n].name, keywords[k])}

CountKind(lines, kind) == Cardinality({k \in 1..Len(lines) : lines[k].kind = kind})

\* C7: search_graph returns "No info found." exactly when no keyword matches a
\* stored name; otherwise one block per (keyword, matched entity) pair, the
\* blocks separated by a blank line.
C7_Sentinel ==
  pc = "answered" =>
    /\ context = NoInfoFound <=> MatchPairs = {}
    /\ MatchPairs # {} =>
         /\ CountKind(context, "header") = Cardinality(MatchPairs)
         /\ CountKind(context, "blank") = Cardinality(MatchPairs) - 1
         /\ context[1].kind = "header"
         /\ \A k \in 1..Len(context) :
              context[k].kind = "blank" =>
                k < Len(context) /\ context[k + 1].kind = "header"
         /\ \A k \in 2..Len(context) :
              context[k].kind = "header" => context[k - 1].kind = "blank"
         /\ \A k \in 1..Len(context) : context[k].kind # "No info found."

\* The sentinel came back for a non-empty keyword list over a non-empty store.
C7_Witness ==
  /\ pc = "answered"
  /\ context = NoInfoFound
  /\ keywords # <<>>
  /\ graph.nodes # <<>>

\* ------------------------------------------------------------------ C8, C10
\* ask was called for the current line: it returned, or it raised.
Asked == pc = "answered" \/ (pc = "crashed" /\ storeWrites > 0)

\* C8: a keyword completion that does not parse as JSON raises out of
\* search_graph and ask: the question is aborted, no lookup is run for it and
\* the answerer is not called.
C8_KeywordParseFailurePropagates ==
  (Asked /\ ~Parses(StripFence(lastText))) =>
    /\ pc = "crashed"
    /\ lookups = 0
    /\ ~answered
    /\ context = <<>>

\* A fenced completion whose content is no JSON aborted a question.
C8_Witness ==
  /\ pc = "crashed"
  /\ storeWrites = 1
  /\ HasFence(lastText)
  /\ ~Parses(StripFence(lastText))
  /\ q = "cats?"

Unusable(text) ==
  LET body == StripFence(text)
  IN ~Parses(body) \/ ~WellShaped(Parsed(body))

\* C5: for every completion at the extraction call site that is no JSON or
\* JSON of an unexpected shape, extract returns {entities: [], relations: []}
\* and the build goes on.
C5_ExtractionFailureSwallowed ==
  (storeWrites = 0 /\ extracted # <<>> /\ Unusable(lastText)) =>
    /\ extracted[Len(extracted)] = EmptyResult
    /\ pc = "build"

\* What the code does hold to: a completion that json.loads rejects yields
\* the empty result and the build goes on.
C5_NonJsonSwallowed ==
  (storeWrites = 0 /\ extracted # <<>> /\ ~Parses(StripFence(lastText))) =>
    /\ extracted[Len(extracted)] = EmptyResult
    /\ pc = "build"

\* The lines of kind kind in a block, as a sequence.
LinesOf(block, kind) == SelectSeq(block, LAMBDA ln : ln.kind = kind)

\* The block of record d shows the stored edges of its node exactly: the
\* header, then one out line per stored outgoing edge, then one inc line per
\* stored incoming edge.
ShowsEdgesOf(block, d) ==
  LET outs == LinesOf(block, "out")
      incs == LinesOf(block, "inc")
  IN /\ block = <<Line("header", d.entity, d.type, <<>>)>> \o outs \o incs
     /\ {<<ln.a, ln.rel, ln.b>> : ln \in Range(outs)}
          = {t \in EdgeTriples(graph) : t[1] = d.entity}
     /\ {<<ln.a, ln.rel, ln.b>> : ln \in Range(incs)}
          = {t \in EdgeTriples(graph) : t[3] = d.entity}
     /\ Len(outs) = Cardinality({t \in EdgeTriples(graph) : t[1] = d.entity})
     /\ Len(incs) = Cardinality({t \in EdgeTriples(graph) : t[3] = d.entity})

\* C9: the block of every matched entity is its header, one line per stored
\* outgoing edge and one line per stored incoming edge; none is left out and
\* none is rendered twice.
C9_NeighbourhoodRendering ==
  Stored =>
    \A kw \in ProbeKeywords :
      LET recs == FindNeighborhood(graph, kw)
      IN \A k \in 1..Len(recs) : ShowsEdgesOf(Render(recs[k]), recs[k])

\* The same, for the entities none of whose neighbours has the empty name.
C9_RenderingOfNamedNeighbours ==
  Stored =>
    \A kw \in ProbeKeywords :
      LET recs == FindNeighborhood(graph, kw)
      IN \A k \in 1..Len(recs) :
           (\A t \in EdgeTriples(graph) :
              (t[1] = recs[k].entity => t[3] # EmptyName)
              /\ (t[3] = recs[k].entity => t[1] # EmptyName))
             => ShowsEdgesOf(Render(recs[k]), recs[k])

\* An entity with two outgoing and two incoming edges is stored.
C9_ManyEdgesBothWays ==
  /\ Stored
  /\ \E n \in NodeNames(graph) :
       /\ Cardinality({t \in EdgeTriples(graph) : t[1] = n}) >= 2
       /\ Cardinality({t \in EdgeTriples(graph) : t[3] = n}) >= 2

====
